---- MODULE Spec2Model ----
(***************************************************************************)
(* RecursiveDocument: a tree of Document / Section / Paragraph /           *)
(* DefinitionList objects that formats itself into indented, wrapped text. *)
(*                                                                         *)
(* A string is a sequence of one-character strings; " " is the only        *)
(* whitespace character of the texts used here and no text holds a hyphen, *)
(* so textwrap's tab expansion, whitespace replacement and hyphen          *)
(* splitting leave the texts as they are.                                  *)
(***************************************************************************)
EXTENDS Integers, Sequences, FiniteSets, TLC

VARIABLES objs, call, ret

vars == <<objs, call, ret>>

\* textwrap.TextWrapper's default width, "wrapped to 70 caracters".
W == 70

\* DefinitionList.__maxDefinitionPrefixLength
maxDefinitionPrefixLength == 24

(***************************************************************************)
(* Strings                                                                 *)
(***************************************************************************)
SP == " "
NL == "\n"

\* n * " "
Spaces(n) == [i \in 1..n |-> SP]

\* n * c
Rep(c, n) == [i \in 1..n |-> c]

\* s[:n]
Take(s, n) == SubSeq(s, 1, IF n < Len(s) THEN n ELSE Len(s))

\* s[n:]
Drop(s, n) == SubSeq(s, n + 1, Len(s))

Front(s) == SubSeq(s, 1, Len(s) - 1)

Last(s) == s[Len(s)]

\* chunk.strip() == ''
IsWhitespace(s) == \A i \in 1..Len(s) : s[i] = SP

RECURSIVE Flatten(_)
\* ''.join(seqs)
Flatten(seqs) == IF seqs = <<>> THEN <<>> ELSE Head(seqs) \o Flatten(Tail(seqs))

RECURSIVE SumLen(_)
SumLen(seqs) == IF seqs = <<>> THEN 0 ELSE Len(Head(seqs)) + SumLen(Tail(seqs))

\* the number of leading spaces of a line
LeadingSpaces(s) ==
    CHOOSE n \in 0..Len(s) :
        /\ \A i \in 1..n : s[i] = SP
        /\ (n < Len(s) => s[n + 1] # SP)

(***************************************************************************)
(* _wrap: textwrap.wrap(text, initial_indent=indent,                       *)
(* subsequent_indent=indent) with the defaults width=70,                   *)
(* break_long_words=True, drop_whitespace=True.                            *)
(***************************************************************************)

\* the length of the first run of text: whitespace, or non-whitespace
RunLen(text) ==
    CHOOSE n \in 1..Len(text) :
        /\ \A i \in 1..n : (text[i] = SP) <=> (text[1] = SP)
        /\ (n < Len(text) => ((text[n + 1] = SP) # (text[1] = SP)))

RECURSIVE Split(_)
\* TextWrapper._split: the chunks of text, whitespace runs and words
Split(text) ==
    IF text = <<>> THEN <<>>
    ELSE LET n == RunLen(text)
         IN  <<Take(text, n)>> \o Split(Drop(text, n))

\* the number of leading chunks that fit into width: the inner while loop
\* of TextWrapper._wrap_chunks
Fitting(chunks, width) ==
    CHOOSE n \in 0..Len(chunks) :
        /\ \A k \in 1..n : SumLen(SubSeq(chunks, 1, k)) <= width
        /\ (n < Len(chunks) => SumLen(SubSeq(chunks, 1, n + 1)) > width)

\* the mutant of HandleLongWord with break_long_words off: a word too long
\* for any line goes whole on a line of its own
HandleLongWordWhole(curLine, rest, width) ==
    IF curLine = <<>>
    THEN [line |-> <<rest[1]>>, rest |-> Tail(rest)]
    ELSE [line |-> curLine, rest |-> rest]

\* TextWrapper._handle_long_word, break_long_words being on: the part of
\* the long chunk that fits the rest of the line goes on the line
HandleLongWord(curLine, rest, width) ==
    LET spaceLeft == IF width < 1 THEN 1 ELSE width - SumLen(curLine)
    IN  [line |-> Append(curLine, Take(rest[1], spaceLeft)),
         rest |-> <<Drop(rest[1], spaceLeft)>> \o Tail(rest)]

\* width = self.width - len(indent) of TextWrapper._wrap_chunks
LineWidth(indent) == W - Len(indent)

RECURSIVE WrapChunks(_, _, _)
\* TextWrapper._wrap_chunks: one pass of the outer loop per call
WrapChunks(chunks, indent, lines) ==
    IF chunks = <<>> THEN lines
    ELSE
    LET width == LineWidth(indent)
        c0 == IF IsWhitespace(chunks[1]) /\ lines # <<>> THEN Tail(chunks) ELSE chunks
        n == Fitting(c0, width)
        cur == SubSeq(c0, 1, n)
        rest == SubSeq(c0, n + 1, Len(c0))
        long == IF rest # <<>> /\ Len(rest[1]) > width
                THEN HandleLongWord(cur, rest, width)
                ELSE [line |-> cur, rest |-> rest]
        curLine == IF long.line # <<>> /\ IsWhitespace(Last(long.line))
                   THEN Front(long.line) ELSE long.line
    IN  WrapChunks(long.rest, indent,
                   IF curLine # <<>> THEN Append(lines, indent \o Flatten(curLine))
                   ELSE lines)

\* _wrap(text, prefixLength)
Wrap(text, prefixLength) == WrapChunks(Split(text), Spaces(prefixLength), <<>>)

(***************************************************************************)
(* The document tree.  A node is a record:                                 *)
(*   [kind |-> "Paragraph", text]                                          *)
(*   [kind |-> "Section", title, contents]                                 *)
(*   [kind |-> "Container", contents]   [kind |-> "Document", contents]    *)
(*   [kind |-> "DefinitionList", items], an item being <<name, definition>>*)
(*   [kind |-> "None"], Python's None                                      *)
(* A block is a sequence of lines, a line a string; <<>> is the line "".   *)
(***************************************************************************)
None == [kind |-> "None"]

Paragraph(text) == [kind |-> "Paragraph", text |-> text]

Section(title, contents) == [kind |-> "Section", title |-> title, contents |-> contents]

Container(contents) == [kind |-> "Container", contents |-> contents]

Document(contents) == [kind |-> "Document", contents |-> contents]

DefinitionList(items) == [kind |-> "DefinitionList", items |-> items]

IsContainer(node) == node.kind \in {"Container", "Document", "Section"}

Max(S) == CHOOSE m \in S : \A x \in S : x <= m

\* line 108 run after every block, not after every line: a block without
\* lines counts as a previous block
HasPreviousAfterAnyBlock(block, hasPreviousBlock) == TRUE

\* hasPreviousBlock after the lines of block: line 108 runs once per line
HasPreviousAfter(block, hasPreviousBlock) == hasPreviousBlock \/ block # <<>>

RECURSIVE EmitBlock(_, _, _)
\* the inner loop of _insertWhiteLines: the lines yielded for one block
EmitBlock(block, firstLineOfBlock, hasPreviousBlock) ==
    IF block = <<>> THEN <<>>
    ELSE (IF firstLineOfBlock /\ hasPreviousBlock THEN <<<<>>>> ELSE <<>>)
         \o <<Head(block)>>
         \o EmitBlock(Tail(block), FALSE, TRUE)

RECURSIVE InsertWhiteLinesFrom(_, _)
\* the outer loop of _insertWhiteLines
InsertWhiteLinesFrom(blocks, hasPreviousBlock) ==
    IF blocks = <<>> THEN <<>>
    ELSE EmitBlock(Head(blocks), TRUE, hasPreviousBlock)
         \o InsertWhiteLinesFrom(Tail(blocks),
                                 HasPreviousAfter(Head(blocks), hasPreviousBlock))

\* _insertWhiteLines(blocks)
InsertWhiteLines(blocks) == InsertWhiteLinesFrom(blocks, FALSE)

RECURSIVE Format(_, _)

\* Container._formatContents
FormatContents(contents, prefixLength) ==
    InsertWhiteLines([i \in 1..Len(contents) |-> Format(contents[i], prefixLength)])

\* Section._format with the contents at the section's own indent
SectionFormatFlat(title, contents, prefixLength) ==
    Wrap(title, prefixLength) \o FormatContents(contents, prefixLength)

\* Section._format with the title wrapped at the margin
SectionFormatTitleAtMargin(title, contents, prefixLength) ==
    Wrap(title, 0) \o FormatContents(contents, prefixLength + 2)

\* Section._format
SectionFormat(title, contents, prefixLength) ==
    Wrap(title, prefixLength) \o FormatContents(contents, prefixLength + 2)

\* the comparison of line 227 made strict
ShortEnoughStrict(prefixedName) == Len(prefixedName) < maxDefinitionPrefixLength

\* shortEnough of DefinitionList.__prefixedItems
ShortEnough(prefixedName) == Len(prefixedName) <= maxDefinitionPrefixLength

\* DefinitionList.__prefixedItems
PrefixedItems(items, prefixLength) ==
    [i \in 1..Len(items) |->
        LET prefixedName == Spaces(prefixLength) \o items[i][1]
        IN  [prefixedName |-> prefixedName,
             definition |-> items[i][2],
             shortEnough |-> ShortEnough(prefixedName)]]

\* definitionPrefixLength of DefinitionList._format
DefinitionPrefixLength(items, prefixLength) ==
    LET prefixed == PrefixedItems(items, prefixLength)
    IN  2 + Max({prefixLength}
                \cup {Len(prefixed[i].prefixedName) :
                        i \in {j \in 1..Len(prefixed) : prefixed[j].shortEnough}})

\* DefinitionList.__formatItem with line 247 cutting the definition's
\* first line at the definition column: the term is not padded
FormatItemUnpadded(item, definitionPrefixLength) ==
    LET lines == Format(item.definition, definitionPrefixLength)
    IN  (IF ~item.shortEnough THEN <<item.prefixedName>> ELSE <<>>)
        \o (IF lines = <<>> THEN <<item.prefixedName>>
            ELSE IF item.shortEnough
                 THEN <<item.prefixedName \o Drop(Head(lines), definitionPrefixLength)>>
                      \o Tail(lines)
                 ELSE lines)

\* DefinitionList.__formatItem
FormatItem(item, definitionPrefixLength) ==
    LET nameMustBeOnItsOwnLine == ~item.shortEnough
        lines == Format(item.definition, definitionPrefixLength)
    IN  (IF nameMustBeOnItsOwnLine THEN <<item.prefixedName>> ELSE <<>>)
        \o (IF lines = <<>> THEN <<item.prefixedName>>
            ELSE IF ~nameMustBeOnItsOwnLine
                 THEN <<item.prefixedName \o Drop(Head(lines), Len(item.prefixedName))>>
                      \o Tail(lines)
                 ELSE lines)

\* DefinitionList._format
DefinitionListFormat(items, prefixLength) ==
    LET prefixed == PrefixedItems(items, prefixLength)
        definitionPrefixLength == DefinitionPrefixLength(items, prefixLength)
    IN  Flatten([i \in 1..Len(prefixed) |-> FormatItem(prefixed[i], definitionPrefixLength)])

\* node._format(prefixLength), all its lines drawn.  None has no _format
\* and no tree that is formatted holds it: Container.add drops it and no
\* DefinitionList.add is made with it.
Format(node, prefixLength) ==
    CASE node.kind = "Paragraph" -> Wrap(node.text, prefixLength)
      [] node.kind = "Section" -> SectionFormat(node.title, node.contents, prefixLength)
      [] node.kind \in {"Container", "Document"} -> FormatContents(node.contents, prefixLength)
      [] node.kind = "DefinitionList" -> DefinitionListFormat(node.items, prefixLength)
      [] OTHER -> <<>>

\* every line ended by "\n", the last one too
JoinLinesEnded(lines) ==
    IF lines = <<>> THEN <<>> ELSE Flatten([i \in 1..Len(lines) |-> lines[i] \o <<NL>>])

RECURSIVE JoinLines(_)
\* "\n".join(lines)
JoinLines(lines) ==
    IF lines = <<>> THEN <<>>
    ELSE IF Len(lines) = 1 THEN lines[1]
    ELSE lines[1] \o <<NL>> \o JoinLines(Tail(lines))

\* Document.format
DocumentFormat(contents) == JoinLines(FormatContents(contents, 0))

(***************************************************************************)
(* The texts and indents the calls are made with                           *)
(***************************************************************************)

\* a text is made of at most MaxTokens tokens: one space, or a word
MaxTokens == 3

\* the tokens: 0 is a space, n > 0 a word of n letters
TokenKinds == {0, 1, 30, 71}

\* the indents _wrap is called with for the texts of these tokens: they
\* leave lines of 70 and of 40
WrapIndents == {0, 30}

\* the tokens of the texts wrapped where little or no room is left
NarrowTokenKinds == {0, 1, 3}

\* the indents that leave lines of 2, and no room at all
NarrowIndents == {68, 70}

Letters == <<"a", "b", "c", "d", "e", "f", "g", "h">>

\* the letter of the word at position i of a text, a different one for each
Letter(i) == Letters[((i - 1) % Len(Letters)) + 1]

TextOf(tokens) ==
    Flatten([i \in 1..Len(tokens) |->
                IF tokens[i] = 0 THEN <<SP>> ELSE Rep(Letter(i), tokens[i])])

TokenSeqs(kinds) == UNION {[1..n -> kinds] : n \in 0..MaxTokens}

WrapTexts == {TextOf(t) : t \in TokenSeqs(TokenKinds)}

NarrowTexts == {TextOf(t) : t \in TokenSeqs(NarrowTokenKinds)}

Pending == [kind |-> "pending"]

(***************************************************************************)
(* _wrap as a function of its arguments                                    *)
(***************************************************************************)
InitWrap ==
    /\ objs = <<>>
    /\ call \in {[op |-> "_wrap", text |-> t, prefixLength |-> L] :
                    t \in WrapTexts, L \in WrapIndents}
                \cup {[op |-> "_wrap", text |-> t, prefixLength |-> L] :
                        t \in NarrowTexts, L \in NarrowIndents}
    /\ ret = Pending

CallWrap ==
    /\ call.op = "_wrap"
    /\ ret.kind = "pending"
    /\ ret' = [kind |-> "lines", lines |-> Wrap(call.text, call.prefixLength)]
    /\ UNCHANGED <<objs, call>>

NextWrap == CallWrap

SpecWrap == InitWrap /\ [][NextWrap]_vars

(***************************************************************************)
(* The trees the format calls are made with                                *)
(***************************************************************************)

\* a Container, Section or Document holds at most MaxChildren children
MaxChildren == 2

\* a DefinitionList holds at most MaxItems items
MaxItems == 2

\* the indents _format is called with: of a Container or Section, and of
\* a DefinitionList
FormatIndents == {0, 2, 40}

ListIndents == {0, 2}

Word(c, n) == Rep(c, n)

ShortText == Word("p", 3)

\* three words that do not fit one line of 70
LongText == Word("p", 30) \o <<SP>> \o Word("q", 30) \o <<SP>> \o Word("r", 30)

Title == Word("t", 5)

SubTitle == Word("u", 5)

\* the terms: none, short, 24 long, and two words 81 long
Names == {<<>>, Word("n", 4), Word("n", 24), Word("n", 40) \o <<SP>> \o Word("m", 40)}

Titles == {<<>>, Title}

\* the definitions of the items
Definitions ==
    {Paragraph(<<>>), Paragraph(ShortText), Paragraph(LongText),
     Section(Title, <<Paragraph(ShortText)>>),
     DefinitionList(<<<<Word("k", 4), Paragraph(ShortText)>>>>)}

\* the children of the containers
Children ==
    {Paragraph(<<>>), Paragraph(ShortText), Paragraph(LongText),
     Section(<<>>, <<>>),
     Section(Title, <<Section(SubTitle, <<Paragraph(ShortText)>>)>>),
     Container(<<Paragraph(ShortText), Paragraph(LongText)>>),
     DefinitionList(<<<<Word("k", 4), Paragraph(ShortText)>>>>),
     DefinitionList(<<<<<<>>, Paragraph(<<>>)>>>>),
     DefinitionList(<<<<Word("n", 25), Paragraph(<<>>)>>>>)}

SeqsUpTo(S, max) == UNION {[1..n -> S] : n \in 0..max}

ContainerNodes ==
    LET cs == SeqsUpTo(Children, MaxChildren)
    IN  {Container(c) : c \in cs} \cup {Section(t, c) : t \in Titles, c \in cs}

DocumentNodes == {Document(c) : c \in SeqsUpTo(Children, MaxChildren)}

DefinitionListNodes ==
    {DefinitionList(items) : items \in SeqsUpTo(Names \X Definitions, MaxItems)}

(***************************************************************************)
(* _format and Document.format as functions of the tree                    *)
(***************************************************************************)
InitFormat ==
    /\ objs = <<>>
    /\ call \in {[op |-> "_format", node |-> n, prefixLength |-> L] :
                    n \in ContainerNodes, L \in FormatIndents}
                \cup {[op |-> "_format", node |-> n, prefixLength |-> L] :
                        n \in DefinitionListNodes, L \in ListIndents}
                \cup {[op |-> "format", node |-> n, prefixLength |-> 0] :
                        n \in DocumentNodes}
    /\ ret = Pending

\* list(node._format(prefixLength))
CallFormat ==
    /\ call.op = "_format"
    /\ ret.kind = "pending"
    /\ ret' = [kind |-> "lines", lines |-> Format(call.node, call.prefixLength)]
    /\ UNCHANGED <<objs, call>>

\* Document.format()
CallDocumentFormat ==
    /\ call.op = "format"
    /\ ret.kind = "pending"
    /\ ret' = [kind |-> "str", str |-> DocumentFormat(call.node.contents)]
    /\ UNCHANGED <<objs, call>>

NextFormat == CallFormat \/ CallDocumentFormat

SpecFormat == InitFormat /\ [][NextFormat]_vars

(***************************************************************************)
(* The objects and their methods.  objs[id] is the object id:              *)
(*   kind, text (of a Paragraph) or title (of a Section), contents (the    *)
(*   ids in Container.__contents), items (DefinitionList.__items, pairs    *)
(*   <<name, id>>); the id 0 is None.                                      *)
(* call is the last call made and ret what it returned.                    *)
(***************************************************************************)

\* at most MaxObjs objects are made
MaxObjs == 3

NoneId == 0

NewObject(kind, text) == [kind |-> kind, text |-> text, contents |-> <<>>, items |-> <<>>]

Ids == 1..Len(objs)

ContainerIds == {id \in Ids : objs[id].kind \in {"Document", "Section"}}

RECURSIVE Reach(_)
\* the objects of the tree of id
Reach(id) ==
    IF id = NoneId THEN {}
    ELSE {id} \cup UNION {Reach(objs[id].contents[i]) : i \in 1..Len(objs[id].contents)}
              \cup UNION {Reach(objs[id].items[i][2]) : i \in 1..Len(objs[id].items)}

RECURSIVE TreeOf(_)
\* the tree of the object id
TreeOf(id) ==
    IF id = NoneId THEN None
    ELSE CASE objs[id].kind = "Paragraph" -> Paragraph(objs[id].text)
           [] objs[id].kind = "Section" ->
                Section(objs[id].text,
                        [i \in 1..Len(objs[id].contents) |-> TreeOf(objs[id].contents[i])])
           [] objs[id].kind = "Document" ->
                Document([i \in 1..Len(objs[id].contents) |-> TreeOf(objs[id].contents[i])])
           [] OTHER ->
                DefinitionList([i \in 1..Len(objs[id].items) |->
                                  <<objs[id].items[i][1], TreeOf(objs[id].items[i][2])>>])

Init ==
    /\ objs = <<>>
    /\ call = [op |-> "import"]
    /\ ret = [kind |-> "None"]

\* what a constructor does: the new object, without contents
Construct(kind, text) ==
    /\ Len(objs) < MaxObjs
    /\ objs' = Append(objs, NewObject(kind, text))
    /\ call' = [op |-> kind]
    /\ ret' = [kind |-> "ref", ref |-> Len(objs) + 1]

\* Document()
NewDocument == Construct("Document", <<>>)

\* Section(title)
NewSection == \E title \in {Title} : Construct("Section", title)

\* Paragraph(text)
NewParagraph == \E text \in {ShortText} : Construct("Paragraph", text)

\* DefinitionList()
NewDefinitionList == Construct("DefinitionList", <<>>)

\* Container.add without the test of line 124: None is appended too
ContentsAfterAddAlways(contents, content) == Append(contents, content)

\* self.__contents after Container.add(content)
ContentsAfterAdd(contents, content) ==
    IF content # NoneId THEN Append(contents, content) ELSE contents

\* the object id is a child or a definition of some object
Owned(id) ==
    \E o \in Ids :
        \/ \E i \in 1..Len(objs[o].contents) : objs[o].contents[i] = id
        \/ \E i \in 1..Len(objs[o].items) : objs[o].items[i][2] = id

\* the objects given to add of self: the objects make trees, a node has
\* one owner, a Document is a root and self is not in the tree it is given
Addable(self) ==
    {id \in Ids : objs[id].kind # "Document" /\ ~Owned(id) /\ self \notin Reach(id)}

\* Container.add(content), of a Document or a Section
Add ==
    \E self \in ContainerIds : \E content \in Addable(self) \cup {NoneId} :
        /\ content # NoneId => Len(objs[self].contents) < MaxChildren
        /\ objs' = [objs EXCEPT ![self].contents = ContentsAfterAdd(@, content)]
        /\ call' = [op |-> "Container.add", self |-> self, content |-> content]
        /\ ret' = [kind |-> "ref", ref |-> self]

\* DefinitionList.add(name, definition), the definition being a node
ListAdd ==
    \E self \in {id \in Ids : objs[id].kind = "DefinitionList"} :
    \E name \in {Word("n", 4)} : \E definition \in Addable(self) :
        /\ Len(objs[self].items) < MaxItems
        /\ objs' = [objs EXCEPT ![self].items = Append(@, <<name, definition>>)]
        /\ call' = [op |-> "DefinitionList.add", self |-> self, content |-> definition]
        /\ ret' = [kind |-> "ref", ref |-> self]

\* Document.format()
DocFormat ==
    \E self \in {id \in Ids : objs[id].kind = "Document"} :
        /\ call' = [op |-> "format", self |-> self]
        /\ ret' = [kind |-> "str", str |-> DocumentFormat(TreeOf(self).contents)]
        /\ UNCHANGED objs

Next ==
    \/ NewDocument
    \/ NewSection
    \/ NewParagraph
    \/ NewDefinitionList
    \/ Add
    \/ ListAdd
    \/ DocFormat

Spec == Init /\ [][Next]_vars

(***************************************************************************)
(* Properties of _wrap                                                     *)
(***************************************************************************)

\* the whitespace-delimited words of a string, in order
Words(s) == SelectSeq(Split(s), LAMBDA c : ~IsWhitespace(c))

\* the words and pieces of words on the lines, in order
Pieces(lines) == Flatten([i \in 1..Len(lines) |-> Words(lines[i])])

RECURSIVE Refines(_, _, _)
\* pieces are the words, in order, only the words longer than avail being
\* cut into several pieces
Refines(pieces, words, avail) ==
    IF words = <<>> THEN pieces = <<>>
    ELSE IF Len(Head(words)) <= avail
    THEN /\ pieces # <<>>
         /\ Head(pieces) = Head(words)
         /\ Refines(Tail(pieces), Tail(words), avail)
    ELSE \E k \in 1..Len(pieces) :
            /\ Flatten(SubSeq(pieces, 1, k)) = Head(words)
            /\ Refines(SubSeq(pieces, k + 1, Len(pieces)), Tail(words), avail)

\* C8 as stated: _wrap never splits a word; every word of the text is
\* whole inside exactly one line, the words keep their order, and a word
\* longer than W - indent is alone on its line, whole.
C8_NoWordIsSplit ==
    ret.kind = "lines" /\ call.op = "_wrap" =>
        /\ Pieces(ret.lines) = Words(call.text)
        /\ \A i \in 1..Len(ret.lines) :
              (\E j \in 1..Len(Words(ret.lines[i])) :
                    Len(Words(ret.lines[i])[j]) > W - call.prefixLength)
              => Len(Words(ret.lines[i])) = 1

\* C8 amended: _wrap never splits a word that fits W - indent: every such
\* word is whole inside exactly one line and the words keep their order; a
\* word longer than W - indent is cut into pieces, no character of it lost,
\* and no line is longer than the indent plus the room left (one character
\* when the indent leaves no room).
C8_FittingWordsAreNotSplit ==
    ret.kind = "lines" /\ call.op = "_wrap" =>
        LET avail == W - call.prefixLength
        IN  /\ Refines(Pieces(ret.lines), Words(call.text), avail)
            /\ \A i \in 1..Len(ret.lines) :
                  /\ Take(ret.lines[i], call.prefixLength) = Spaces(call.prefixLength)
                  /\ Len(ret.lines[i]) <= call.prefixLength + (IF avail < 1 THEN 1 ELSE avail)

\* C8: a text with a word that fits and a word that does not was wrapped
\* into several lines
C8_Witness ==
    /\ ret.kind = "lines" /\ call.op = "_wrap"
    /\ Len(ret.lines) >= 2
    /\ \E i, j \in 1..Len(Words(call.text)) :
          /\ Len(Words(call.text)[i]) > W - call.prefixLength
          /\ Len(Words(call.text)[j]) <= W - call.prefixLength

(***************************************************************************)
(* Properties of the containers                                            *)
(***************************************************************************)

\* the indent the children of the called node are formatted at
ChildIndent == IF call.node.kind = "Section" THEN call.prefixLength + 2 ELSE call.prefixLength

\* the blocks of the children of the called node
ChildBlocks == [i \in 1..Len(call.node.contents) |-> Format(call.node.contents[i], ChildIndent)]

\* the lines the title of the called node takes
TitleLines == IF call.node.kind = "Section" THEN Wrap(call.node.title, call.prefixLength) ELSE <<>>

\* blocks one after the other, one blank line between two of them
Separated(blocks) ==
    Flatten([i \in 1..Len(blocks) |-> (IF i = 1 THEN <<>> ELSE <<<<>>>>) \o blocks[i]])

\* the lines the called container gives for its children: what follows
\* the title lines
BodyLines == SubSeq(ret.lines, Len(TitleLines) + 1, Len(ret.lines))

FormattedContainer == ret.kind = "lines" /\ call.op = "_format" /\ IsContainer(call.node)

FormattedDocument == ret.kind = "str" /\ call.op = "format"

\* C1: the lines of a container's children are the blocks of the children
\* that give at least one line, in order, with exactly one blank line
\* between two of them and none before the first; a child without lines
\* adds nothing.
C1_OneBlankLineBetweenBlocks ==
    LET contributing == SelectSeq(ChildBlocks, LAMBDA b : b # <<>>)
    IN  /\ FormattedContainer => BodyLines = Separated(contributing)
        /\ FormattedDocument => ret.str = JoinLines(Separated(contributing))

\* C1: a container was formatted whose first child gives no line and whose
\* second child is a container of two paragraphs, one blank line apart
C1_Witness ==
    /\ FormattedContainer
    /\ Len(call.node.contents) = 2
    /\ ChildBlocks[1] = <<>>
    /\ call.node.contents[2] = Container(<<Paragraph(ShortText), Paragraph(LongText)>>)
    /\ Len(BodyLines) = Len(ChildBlocks[2])
    /\ Cardinality({i \in 1..Len(BodyLines) : BodyLines[i] = <<>>}) = 1

\* the sections nested two deep, with a paragraph inside
NestedSections == Section(Title, <<Section(SubTitle, <<Paragraph(ShortText)>>)>>)

\* C2: Section.format(L) is the title wrapped at L, then at once the
\* children formatted at L + 2; under a Document the title of a section
\* at depth d is indented by 2 * (d - 1) and its paragraph by 2 * d.
C2_SectionIndentsByTwo ==
    /\ FormattedContainer /\ call.node.kind = "Section" =>
          /\ ret.lines = Wrap(call.node.title, call.prefixLength)
                         \o FormatContents(call.node.contents, call.prefixLength + 2)
          /\ (call.node.title = Title /\ call.node.contents # <<>>
              /\ call.node.contents[1] = Paragraph(ShortText) /\ call.prefixLength < 60
              => /\ ret.lines[1] = Spaces(call.prefixLength) \o Title
                 /\ ret.lines[2] = Spaces(call.prefixLength + 2) \o ShortText)
    /\ FormattedDocument /\ call.node.contents # <<>>
       /\ call.node.contents[1] = NestedSections
       => LET start == Title \o <<NL>> \o Spaces(2) \o SubTitle
                         \o <<NL>> \o Spaces(4) \o ShortText
          IN  Take(ret.str, Len(start)) = start

\* C2: a Document holding sections nested two deep was formatted
C2_Witness ==
    /\ FormattedDocument
    /\ call.node.contents = <<NestedSections, Paragraph(ShortText)>>

\* C6 as stated: every line of N.format(L) begins with at least L spaces.
C6_EveryLineIsIndented ==
    ret.kind = "lines" /\ call.op = "_format" =>
        \A i \in 1..Len(ret.lines) :
            Take(ret.lines[i], call.prefixLength) = Spaces(call.prefixLength)

\* C6 amended: every line of N.format(L) other than the blank lines put
\* between the blocks of a container (the lines "") begins with at least
\* L spaces.
C6_EveryNonBlankLineIsIndented ==
    ret.kind = "lines" /\ call.op = "_format" =>
        \A i \in 1..Len(ret.lines) :
            ret.lines[i] # <<>> =>
                Take(ret.lines[i], call.prefixLength) = Spaces(call.prefixLength)

\* C6: a node was formatted at an indent of 2 or more into lines, a blank
\* one among them
C6_Witness ==
    /\ ret.kind = "lines" /\ call.op = "_format" /\ call.prefixLength >= 2
    /\ \E i, j \in 1..Len(ret.lines) : ret.lines[i] = <<>> /\ ret.lines[j] # <<>>

(***************************************************************************)
(* Properties of the definition lists                                      *)
(***************************************************************************)
FormattedList == ret.kind = "lines" /\ call.op = "_format" /\ call.node.kind = "DefinitionList"

\* the term of pair i with the indent before it
PrefixedTerm(i) == Spaces(call.prefixLength) \o call.node.items[i][1]

\* pair i is short enough: its prefixed term is at most 24 long
IsShort(i) == call.prefixLength + Len(call.node.items[i][1]) <= 24

\* the column the definitions start at: 2 after the longest short-enough
\* prefixed term, or after the indent
Column ==
    2 + Max({call.prefixLength}
            \cup {Len(PrefixedTerm(i)) : i \in {j \in 1..Len(call.node.items) : IsShort(j)}})

RECURSIVE Segments(_, _)
\* lines cut into consecutive runs of the given lengths
Segments(lines, lens) ==
    IF lens = <<>> THEN <<>>
    ELSE <<Take(lines, Head(lens))>> \o Segments(Drop(lines, Head(lens)), Tail(lens))

\* the lines of the output that each pair gives: the pairs come one after
\* the other, each with as many lines as __formatItem yields for it
PairSegments ==
    LET prefixed == PrefixedItems(call.node.items, call.prefixLength)
        D == DefinitionPrefixLength(call.node.items, call.prefixLength)
    IN  Segments(ret.lines, [j \in 1..Len(prefixed) |-> Len(FormatItem(prefixed[j], D))])

\* C3: one column D = 2 + max(L, longest short-enough prefixed term)
\* serves all the pairs of a list: the lines of every definition are the
\* definition formatted at D, and on the line of a short-enough term the
\* term is followed by spaces up to D, where the definition's first line
\* starts.
C3_OneDefinitionColumn ==
    FormattedList =>
        LET D == Column
            segments == PairSegments
        IN  \A i \in 1..Len(call.node.items) :
                LET lines == Format(call.node.items[i][2], D)
                    pair == segments[i]
                    n == Len(pair)
                    term == PrefixedTerm(i)
                IN  lines # <<>> =>
                    /\ n >= Len(lines)
                    /\ SubSeq(pair, n - Len(lines) + 2, n) = Tail(lines)
                    /\ Take(lines[1], D) = Spaces(D)
                    /\ IsShort(i) =>
                          pair[1] = term \o Spaces(D - Len(term)) \o Drop(lines[1], D)

\* C3: a list of two short-enough terms of different lengths was
\* formatted, both definitions giving lines
C3_Witness ==
    /\ FormattedList
    /\ Len(call.node.items) = 2
    /\ IsShort(1) /\ IsShort(2)
    /\ call.node.items[1][1] # <<>>
    /\ Len(PrefixedTerm(1)) < Len(PrefixedTerm(2))
    /\ Format(call.node.items[1][2], Column) # <<>>
    /\ Format(call.node.items[2][2], Column) # <<>>
    /\ Len(ret.lines) >= 2

\* C9: a pair whose prefixed term is longer than 24 gives exactly one
\* line with the prefixed term, then the lines of the definition formatted
\* at the column, as they are: the term line comes once, also when the
\* definition has no line; a prefixed term of 24 gets no line of its own.
C9_LongTermOnItsOwnLineOnce ==
    FormattedList =>
        LET D == Column
            segments == PairSegments
        IN  \A i \in 1..Len(call.node.items) :
                LET lines == Format(call.node.items[i][2], D)
                IN  /\ ~IsShort(i) => segments[i] = <<PrefixedTerm(i)>> \o lines
                    /\ Len(PrefixedTerm(i)) = 24 /\ lines # <<>>
                       => Len(segments[i]) = Len(lines)

\* C10: a short-enough pair gives as many lines as its definition
\* formatted at the column, or the prefixed term alone when the
\* definition has no line; its first line is the definition's first line
\* with the first length(prefixed term) characters, all of them spaces,
\* replaced by the prefixed term; the other lines are the definition's.
C10_TermOverlaysFirstLine ==
    FormattedList =>
        LET D == Column
            segments == PairSegments
        IN  \A i \in 1..Len(call.node.items) :
                LET lines == Format(call.node.items[i][2], D)
                    pair == segments[i]
                    term == PrefixedTerm(i)
                    k == Len(term)
                IN  IsShort(i) =>
                      IF lines = <<>> THEN pair = <<term>>
                      ELSE /\ Len(pair) = Len(lines)
                           /\ Take(lines[1], k) = Spaces(k)
                           /\ pair[1] = term \o Drop(lines[1], k)
                           /\ Tail(pair) = Tail(lines)

\* C10: a list was formatted with a short-enough term whose definition is
\* a nested node of several lines, and a short-enough term whose
\* definition has no line
C10_Witness ==
    /\ FormattedList
    /\ \E i, j \in 1..Len(call.node.items) :
          /\ IsShort(i) /\ call.node.items[i][1] # <<>>
          /\ call.node.items[i][2].kind = "Section"
          /\ Len(Format(call.node.items[i][2], Column)) >= 2
          /\ IsShort(j) /\ call.node.items[j][1] # <<>>
          /\ Format(call.node.items[j][2], Column) = <<>>

(***************************************************************************)
(* Properties of the lines and of the string of a Document                 *)
(***************************************************************************)

\* the line is spaces and then one word, longer than what the spaces
\* leave of the width
OneWordTooLong(line) ==
    LET k == LeadingSpaces(line)
    IN  /\ k < Len(line)
        /\ \A i \in (k + 1)..Len(line) : line[i] # SP
        /\ Len(line) - k > W - k

\* C7 as stated: every line of format is at most W = 70 wide, but for a
\* line that is the indent and a single word longer than W - indent; the
\* lines with the terms of a DefinitionList too.
C7_NoLineWiderThanW ==
    ret.kind = "lines" /\ call.op = "_format" =>
        \A i \in 1..Len(ret.lines) :
            Len(ret.lines[i]) <= W \/ OneWordTooLong(ret.lines[i])

\* C5 as stated: the string of Document.format() is not empty => it does
\* not begin with a blank line, nor end with one, nor with a newline.
C5_NoBlankLineAtTheEnds ==
    FormattedDocument /\ ret.str # <<>> =>
        ret.str[1] # NL /\ ret.str[Len(ret.str)] # NL

RECURSIVE EmptyTermAlone(_)
\* a list among contents, or in a plain Container among them, pairs the
\* term "" with a definition without lines
EmptyTermAlone(contents) ==
    \E i \in 1..Len(contents) :
        CASE contents[i].kind = "DefinitionList" ->
                \E j \in 1..Len(contents[i].items) :
                    /\ contents[i].items[j][1] = <<>>
                    /\ Format(contents[i].items[j][2], 2) = <<>>
          [] contents[i].kind \in {"Container", "Document"} ->
                EmptyTermAlone(contents[i].contents)
          [] OTHER -> FALSE

RECURSIVE SplitLines(_)
\* str.split("\n")
SplitLines(str) ==
    IF \A i \in 1..Len(str) : str[i] # NL THEN <<str>>
    ELSE LET n == CHOOSE k \in 1..Len(str) :
                      str[k] = NL /\ \A i \in 1..(k - 1) : str[i] # NL
         IN  <<Take(str, n - 1)>> \o SplitLines(Drop(str, n))

\* C5 amended: for a Document in which no DefinitionList formatted at
\* indent 0 pairs the term "" with a definition without lines, the string
\* of Document.format() is the lines joined by single newlines and, when
\* not empty, begins and ends with a line that is not empty: it does not
\* end with a newline.
C5_NoBlankLineAtTheEndsButEmptyTerms ==
    FormattedDocument /\ ~EmptyTermAlone(call.node.contents) =>
        LET lines == FormatContents(call.node.contents, 0)
        IN  /\ lines # <<>> => SplitLines(ret.str) = lines
            /\ lines = <<>> => ret.str = <<>>
            /\ ret.str # <<>> => ret.str[1] # NL /\ ret.str[Len(ret.str)] # NL

\* C5: a Document was formatted that ends with a DefinitionList whose
\* last definition has no line
C5_Witness ==
    /\ FormattedDocument
    /\ Len(call.node.contents) = 2
    /\ call.node.contents[2] = DefinitionList(<<<<Word("n", 25), Paragraph(<<>>)>>>>)
    /\ \E i \in 1..Len(ret.str) : ret.str[i] = NL

(***************************************************************************)
(* Properties of add                                                       *)
(***************************************************************************)

\* the string of the children of the Document self, block after block in
\* the order of its contents
InContentsOrder(self) ==
    LET blocks == [i \in 1..Len(objs[self].contents) |->
                      Format(TreeOf(objs[self].contents[i]), 0)]
    IN  JoinLines(Separated(SelectSeq(blocks, LAMBDA b : b # <<>>)))

\* C4: a call of add on a Document or Section appends its argument to the
\* children when it is not None and leaves the children as they are when
\* it is None, changes no other object, and returns the object it was
\* called on, so that the children are the non-None arguments in call
\* order and a chain of adds does what separate adds do; format gives the
\* blocks of the children in that order.
C4_AddAppendsAndReturnsSelf ==
    /\ [](call.op = "format" => ret.str = InContentsOrder(call.self))
    /\ [][call'.op = "Container.add" =>
            /\ Len(objs') = Len(objs)
            /\ objs'[call'.self].contents =
                  IF call'.content = NoneId THEN objs[call'.self].contents
                  ELSE objs[call'.self].contents \o <<call'.content>>
            /\ \A id \in Ids \ {call'.self} : objs'[id] = objs[id]
            /\ ret'.kind = "ref" /\ ret'.ref = call'.self]_vars

\* C4: add(None) was called on a container that had been given two
\* children, the one made later first
C4_Witness ==
    /\ call.op = "Container.add" /\ call.content = NoneId
    /\ ret.ref = call.self
    /\ Len(objs[call.self].contents) = 2
    /\ objs[call.self].contents[1] > objs[call.self].contents[2]

====
